---- MODULE Spec2Model ----
(***************************************************************************)
(* Model of the browse route GET /edition of src/api/routes/edition.js:     *)
(* the middleware chain (query validation, anchor loader, relationship      *)
(* loader) followed by the async handler that merges the generic            *)
(* relationship resolver's records with the EditionGroup / Publisher        *)
(* special cases and filters them by format and language.                   *)
(* Strings are sequences of one-letter strings so that letter case is       *)
(* modelled; an absent (undefined or empty) query value is <<>>.            *)
(***************************************************************************)
EXTENDS Integers, Sequences, FiniteSets, TLC

VARIABLES storage, active, pc, query, locals, editionRelationshipList,
          response, trace, interleaved

vars == <<storage, active, pc, query, locals, editionRelationshipList,
          response, trace, interleaved>>

(* ---------------------------- bounds ---------------------------------- *)
MaxMembers == 3
MaxGeneric == 1

Requests == {"r1", "r2"}

(* ---------------------------- strings --------------------------------- *)
CasePairs ==
  { <<"a","A">>, <<"b","B">>, <<"c","C">>, <<"e","E">>, <<"f","F">>,
    <<"h","H">>, <<"n","N">>, <<"o","O">>, <<"r","R">> }

toLowerChar(c) ==
  IF \E p \in CasePairs : p[2] = c
  THEN (CHOOSE p \in CasePairs : p[2] = c)[1] ELSE c

toUpperChar(c) ==
  IF \E p \in CasePairs : p[1] = c
  THEN (CHOOSE p \in CasePairs : p[1] = c)[2] ELSE c

toLower(s) == [i \in 1..Len(s) |-> toLowerChar(s[i])]

upperFirst(s) == IF s = <<>> THEN s ELSE <<toUpperChar(s[1])>> \o Tail(s)

includes(list, x) == \E i \in 1..Len(list) : list[i] = x

Truthy(s) == s # <<>>

SeqUpTo(S, n) == UNION { [1..k -> S] : k \in 0..n }

(* ---------------------------- storage --------------------------------- *)
\* stored language and format names
English     == <<"E","n">>
French      == <<"F","r">>
OldEnglish  == <<"O","E">>
eBook       == <<"e","B">>
Hardcover   == <<"H","c">>

EditionRows ==
  { [bbid |-> "e1", type |-> "Edition", editionFormat |-> Hardcover, languageSet |-> <<English>>],
    [bbid |-> "e2", type |-> "Edition", editionFormat |-> eBook,     languageSet |-> <<French, English>>],
    [bbid |-> "e3", type |-> "Edition", editionFormat |-> <<>>,      languageSet |-> <<OldEnglish>>] }

WorkRow == [bbid |-> "w1", type |-> "Work", editionFormat |-> <<>>, languageSet |-> <<>>]

Row(b) == CHOOSE e \in EditionRows : e.bbid = b

RelationshipPool ==
  { [entity |-> Row("e1"), typeId |-> 4],
    [entity |-> Row("e2"), typeId |-> 3],
    [entity |-> WorkRow,   typeId |-> 10] }

Anchors == {"a1", "a2"}

BBIDs == Anchors \cup {"gone", "bad"}

isValidBBID(id) == id # "bad"

StoredAnchors == DOMAIN storage.relationships

\* the anchors stored, each with its generic edges and its associated editions
SingleStorages ==
  { [relationships |-> [a \in {"a1"} |-> g],
     editions      |-> [a \in {"a1"} |-> m]] :
       g \in SeqUpTo(RelationshipPool, MaxGeneric),
       m \in SeqUpTo(EditionRows, MaxMembers) }

ConcStorage ==
  [relationships |-> [a \in Anchors |->
       IF a = "a1" THEN <<[entity |-> Row("e1"), typeId |-> 4]>>
                   ELSE <<[entity |-> Row("e2"), typeId |-> 3]>>],
   editions |-> [a \in Anchors |->
       IF a = "a1" THEN <<Row("e2"), Row("e3")>> ELSE <<Row("e1")>>]]

(* ---------------------------- requests -------------------------------- *)
AnchorKeys == {"author", "edition-group", "publisher"}

KeySets == {{}} \cup { {k} : k \in AnchorKeys }

Formats   == { <<>>, <<"e","b">>, <<"E","B">> }
Languages == { <<>>, <<"e","n">>, OldEnglish }

NoQuery == [keys |-> {}, id |-> "", format |-> <<>>, language |-> <<>>,
            bbid |-> "", modelType |-> ""]

RawQueries ==
  { [keys |-> ks, id |-> id, format |-> f, language |-> l,
     bbid |-> "", modelType |-> ""] :
       ks \in KeySets, id \in BBIDs, f \in Formats, l \in Languages }

NoResponse == [status |-> 0, body |-> "none", bbid |-> "", editions |-> <<>>]

ErrorResponse(code) ==
  [status |-> code, body |-> "message", bbid |-> "", editions |-> <<>>]

NoLocals == [entity |-> "", relationships |-> <<>>]

modelTypeOf(key) ==
  CASE key = "author"        -> "Author"
    [] key = "edition-group" -> "EditionGroup"
    [] key = "publisher"     -> "Publisher"
    [] OTHER                 -> ""

(* ---------------------------- pure parts ------------------------------ *)
getEditionBasicInfo(row) ==
  [bbid |-> row.bbid, editionFormat |-> row.editionFormat,
   languages |-> row.languageSet]

\* variant: the supplied format is compared without lower-casing it
relationshipsFilterMethod_RawFormat(q, relatedEntity) ==
  IF Truthy(q.format)
  THEN LET editionFormatMatched ==
             toLower(relatedEntity.editionFormat) = q.format
       IN IF Truthy(q.language)
          THEN editionFormatMatched
               /\ includes(relatedEntity.languages,
                           upperFirst(toLower(q.language)))
          ELSE editionFormatMatched
  ELSE IF Truthy(q.language)
       THEN includes(relatedEntity.languages, upperFirst(toLower(q.language)))
       ELSE TRUE

relationshipsFilterMethod(q, relatedEntity) ==
  IF Truthy(q.format)
  THEN LET editionFormatMatched ==
             toLower(relatedEntity.editionFormat) = toLower(q.format)
       IN IF Truthy(q.language)
          THEN LET editionLanguageMatched ==
                     includes(relatedEntity.languages,
                              upperFirst(toLower(q.language)))
               IN editionFormatMatched /\ editionLanguageMatched
          ELSE editionFormatMatched
  ELSE IF Truthy(q.language)
       THEN includes(relatedEntity.languages, upperFirst(toLower(q.language)))
       ELSE TRUE

getBrowsedRelationships(rels, browsedEntityType, q) ==
  LET kept == SelectSeq(rels, LAMBDA rel :
                 /\ rel.entity.type = browsedEntityType
                 /\ relationshipsFilterMethod(q, getEditionBasicInfo(rel.entity)))
  IN [i \in 1..Len(kept) |->
        [entity |-> getEditionBasicInfo(kept[i].entity),
         relationship |-> {[relationshipTypeID |-> kept[i].typeId]}]]

\* variant: the special-case records replace the list instead of extending it
pushFiltered_Replace(list, editions, q) ==
  LET projected == [i \in 1..Len(editions) |-> getEditionBasicInfo(editions[i])]
      filtered  == SelectSeq(projected, LAMBDA e : relationshipsFilterMethod(q, e))
  IN [i \in 1..Len(filtered) |-> [entity |-> filtered[i], relationship |-> {}]]

\* variant: the special-case records are put in front of the list (unshift)
pushFiltered_Unshift(list, editions, q) ==
  LET projected == [i \in 1..Len(editions) |-> getEditionBasicInfo(editions[i])]
      filtered  == SelectSeq(projected, LAMBDA e : relationshipsFilterMethod(q, e))
  IN [i \in 1..Len(filtered) |-> [entity |-> filtered[i], relationship |-> {}]]
       \o list

pushFiltered(list, editions, q) ==
  LET projected == [i \in 1..Len(editions) |-> getEditionBasicInfo(editions[i])]
      filtered  == SelectSeq(projected, LAMBDA e : relationshipsFilterMethod(q, e))
  IN list \o [i \in 1..Len(filtered) |->
                [entity |-> filtered[i], relationship |-> {}]]

browsedEntityType == "Edition"

\* variant: the Publisher branch compares with the query key spelling
specialResolverFor_KeySpelling(modelType) ==
  IF modelType = "EditionGroup" THEN "containment"
  ELSE IF modelType = "publisher" THEN "ownership"
  ELSE "none"

specialResolverFor(modelType) ==
  IF modelType = "EditionGroup" THEN "containment"
  ELSE IF modelType = "Publisher" THEN "ownership"
  ELSE "none"

\* variant: the criteria live in one module-level variable that the request
\* which entered the handler overwrites
reqQuery_Shared(r) ==
  LET others == {s \in Requests \ {r} :
                   pc[s] \in {"awaitGeneric", "awaitContainment",
                              "awaitOwnership", "done", "rejected"}
                   /\ query[s].modelType # "" /\ query[s].bbid \in StoredAnchors}
  IN IF others = {} THEN query[r] ELSE query[CHOOSE s \in others : TRUE]

reqQuery(r) == query[r]

InFlight(r) == pc[r] \in {"awaitGeneric", "awaitContainment", "awaitOwnership"}

NoteInterleaving(r) ==
  interleaved' = (interleaved \/ \E s \in Requests \ {r} : InFlight(s))

(* ---------------------------- actions --------------------------------- *)
InitCommon ==
  /\ pc = [r \in Requests |-> "idle"]
  /\ query = [r \in Requests |-> NoQuery]
  /\ locals = [r \in Requests |-> NoLocals]
  /\ editionRelationshipList = [r \in Requests |-> <<>>]
  /\ response = [r \in Requests |-> NoResponse]
  /\ trace = [r \in Requests |-> <<>>]
  /\ interleaved = FALSE

Init ==
  /\ InitCommon
  /\ active = {"r1"}
  /\ storage \in SingleStorages

InitConc ==
  /\ InitCommon
  /\ active = Requests
  /\ storage = ConcStorage

Receive(r) ==
  /\ r \in active
  /\ pc[r] = "idle"
  /\ \E q \in RawQueries : query' = [query EXCEPT ![r] = q]
  /\ pc' = [pc EXCEPT ![r] = "validate"]
  /\ UNCHANGED <<storage, active, locals, editionRelationshipList, response,
                 trace, interleaved>>

Validate(r) ==
  /\ pc[r] = "validate"
  /\ IF Cardinality(query[r].keys) # 1
     THEN /\ response' = [response EXCEPT ![r] = ErrorResponse(400)]
          /\ trace' = [trace EXCEPT ![r] = Append(@, "validate.fail")]
          /\ pc' = [pc EXCEPT ![r] = "done"]
          /\ UNCHANGED query
     ELSE LET key == CHOOSE k \in query[r].keys : TRUE
          IN /\ query' = [query EXCEPT ![r].bbid = query[r].id,
                                       ![r].modelType = modelTypeOf(key)]
             /\ trace' = [trace EXCEPT ![r] = Append(@, "validate.ok")]
             /\ pc' = [pc EXCEPT ![r] = "loadEntity"]
             /\ UNCHANGED response
  /\ UNCHANGED <<storage, active, locals, editionRelationshipList, interleaved>>

LoadEntity(r) ==
  /\ pc[r] = "loadEntity"
  /\ IF ~isValidBBID(query[r].bbid)
     THEN /\ response' = [response EXCEPT ![r] = ErrorResponse(400)]
          /\ trace' = [trace EXCEPT ![r] = Append(@, "loadEntity.fail")]
          /\ pc' = [pc EXCEPT ![r] = "done"]
          /\ UNCHANGED locals
     ELSE IF query[r].bbid \notin StoredAnchors
     THEN /\ response' = [response EXCEPT ![r] = ErrorResponse(404)]
          /\ trace' = [trace EXCEPT ![r] = Append(@, "loadEntity.fail")]
          /\ pc' = [pc EXCEPT ![r] = "done"]
          /\ UNCHANGED locals
     ELSE /\ locals' = [locals EXCEPT ![r].entity = query[r].bbid]
          /\ trace' = [trace EXCEPT ![r] = Append(@, "loadEntity.ok")]
          /\ pc' = [pc EXCEPT ![r] = "loadRelationships"]
          /\ UNCHANGED response
  /\ UNCHANGED <<storage, active, query, editionRelationshipList, interleaved>>

LoadRelationships(r) ==
  /\ pc[r] = "loadRelationships"
  /\ locals' = [locals EXCEPT ![r].relationships =
                   storage.relationships[locals[r].entity]]
  /\ trace' = [trace EXCEPT ![r] = Append(@, "loadRelationships")]
  /\ pc' = [pc EXCEPT ![r] = "handler"]
  /\ UNCHANGED <<storage, active, query, editionRelationshipList, response,
                 interleaved>>

HandlerStart(r) ==
  /\ pc[r] = "handler"
  /\ trace' = [trace EXCEPT ![r] = Append(@, "generic.issue")]
  /\ pc' = [pc EXCEPT ![r] = "awaitGeneric"]
  /\ UNCHANGED <<storage, active, query, locals, editionRelationshipList,
                 response, interleaved>>

\* variant: the id is read from the path parameters, which this route lacks
Send200_ParamsBbid(r, list, events) ==
  /\ editionRelationshipList' = [editionRelationshipList EXCEPT ![r] = list]
  /\ response' = [response EXCEPT ![r] =
        [status |-> 200, body |-> "browse", bbid |-> "", editions |-> list]]
  /\ trace' = [trace EXCEPT ![r] = @ \o events \o <<"send200">>]
  /\ pc' = [pc EXCEPT ![r] = "done"]

Send200(r, list, events) ==
  /\ editionRelationshipList' = [editionRelationshipList EXCEPT ![r] = list]
  /\ response' = [response EXCEPT ![r] =
        [status |-> 200, body |-> "browse", bbid |-> reqQuery(r).bbid,
         editions |-> list]]
  /\ trace' = [trace EXCEPT ![r] = @ \o events \o <<"send200">>]
  /\ pc' = [pc EXCEPT ![r] = "done"]

\* The handler has no try/catch and never calls next(err): a rejected await
\* rejects the handler's promise and the handler sends nothing.
Reject(r, events) ==
  /\ trace' = [trace EXCEPT ![r] = @ \o events \o <<"rejected">>]
  /\ pc' = [pc EXCEPT ![r] = "rejected"]
  /\ UNCHANGED <<editionRelationshipList, response>>

\* variant: the special-case reads are not awaited, the response is sent
\* as soon as the generic resolver returns
GenericResolved_NoAwait(r) ==
  /\ pc[r] = "awaitGeneric"
  /\ Send200(r, getBrowsedRelationships(locals[r].relationships,
                                        browsedEntityType, reqQuery(r)),
             <<"generic.done">>)
  /\ NoteInterleaving(r)
  /\ UNCHANGED <<storage, active, query, locals>>

GenericResolved(r) ==
  /\ pc[r] = "awaitGeneric"
  /\ LET list == getBrowsedRelationships(locals[r].relationships,
                                         browsedEntityType, reqQuery(r))
         special == specialResolverFor(reqQuery(r).modelType)
     IN IF special = "containment"
        THEN /\ editionRelationshipList' =
                    [editionRelationshipList EXCEPT ![r] = list]
             /\ trace' = [trace EXCEPT ![r] =
                    @ \o <<"generic.done", "containment.issue">>]
             /\ pc' = [pc EXCEPT ![r] = "awaitContainment"]
             /\ UNCHANGED response
        ELSE IF special = "ownership"
        THEN /\ editionRelationshipList' =
                    [editionRelationshipList EXCEPT ![r] = list]
             /\ trace' = [trace EXCEPT ![r] =
                    @ \o <<"generic.done", "ownership.issue">>]
             /\ pc' = [pc EXCEPT ![r] = "awaitOwnership"]
             /\ UNCHANGED response
        ELSE Send200(r, list, <<"generic.done">>)
  /\ NoteInterleaving(r)
  /\ UNCHANGED <<storage, active, query, locals>>

GenericFailed(r) ==
  /\ pc[r] = "awaitGeneric"
  /\ Reject(r, <<"generic.fail">>)
  /\ NoteInterleaving(r)
  /\ UNCHANGED <<storage, active, query, locals>>

ContainmentFetched(r) ==
  /\ pc[r] = "awaitContainment"
  /\ Send200(r, pushFiltered(editionRelationshipList[r],
                             storage.editions[reqQuery(r).bbid], reqQuery(r)),
             <<"containment.done">>)
  /\ NoteInterleaving(r)
  /\ UNCHANGED <<storage, active, query, locals>>

\* fetch({require: false}) resolved with null: editionGroupJSON is {} and its
\* editions field is undefined, so editions.map throws a TypeError inside the
\* async handler.
ContainmentNoRow(r) ==
  /\ pc[r] = "awaitContainment"
  /\ Reject(r, <<"containment.norow">>)
  /\ NoteInterleaving(r)
  /\ UNCHANGED <<storage, active, query, locals>>

ContainmentFailed(r) ==
  /\ pc[r] = "awaitContainment"
  /\ Reject(r, <<"containment.fail">>)
  /\ NoteInterleaving(r)
  /\ UNCHANGED <<storage, active, query, locals>>

OwnershipFetched(r) ==
  /\ pc[r] = "awaitOwnership"
  /\ Send200(r, pushFiltered(editionRelationshipList[r],
                             storage.editions[reqQuery(r).bbid], reqQuery(r)),
             <<"ownership.done">>)
  /\ NoteInterleaving(r)
  /\ UNCHANGED <<storage, active, query, locals>>

OwnershipFailed(r) ==
  /\ pc[r] = "awaitOwnership"
  /\ Reject(r, <<"ownership.fail">>)
  /\ NoteInterleaving(r)
  /\ UNCHANGED <<storage, active, query, locals>>

Next ==
  \E r \in Requests :
    \/ Receive(r)
    \/ Validate(r)
    \/ LoadEntity(r)
    \/ LoadRelationships(r)
    \/ HandlerStart(r)
    \/ GenericResolved(r)
    \/ GenericFailed(r)
    \/ ContainmentFetched(r)
    \/ ContainmentNoRow(r)
    \/ ContainmentFailed(r)
    \/ OwnershipFetched(r)
    \/ OwnershipFailed(r)

Spec == Init /\ [][Next]_vars

SpecConc == InitConc /\ [][Next]_vars

(* ---------------------------- properties ------------------------------ *)
Has(r, ev) == \E i \in 1..Len(trace[r]) : trace[r][i] = ev

Pos(r, ev) == CHOOSE i \in 1..Len(trace[r]) : trace[r][i] = ev

Count(r, ev) == Cardinality({i \in 1..Len(trace[r]) : trace[r][i] = ev})

Answered200(r) == response[r].status = 200

\* the candidates of a request, in resolver order, tagged with their source
GenericCandidates(r) ==
  LET edges == SelectSeq(storage.relationships[query[r].id],
                         LAMBDA rel : rel.entity.type = "Edition")
  IN [i \in 1..Len(edges) |->
        [entity |-> getEditionBasicInfo(edges[i].entity), source |-> "generic",
         typeId |-> edges[i].typeId]]

SpecialCandidates(r) ==
  IF query[r].modelType \in {"EditionGroup", "Publisher"}
  THEN [i \in 1..Len(storage.editions[query[r].id]) |->
          [entity |-> getEditionBasicInfo(storage.editions[query[r].id][i]),
           source |-> "special", typeId |-> 0]]
  ELSE <<>>

Candidates(r) == GenericCandidates(r) \o SpecialCandidates(r)

Entities(list) == [i \in 1..Len(list) |-> list[i].entity]

\* the predicate as the specification words it
Passes(q, e) ==
  /\ (q.format = <<>> \/ toLower(e.editionFormat) = toLower(q.format))
  /\ (q.language = <<>>
        \/ includes(e.languages, upperFirst(toLower(q.language))))

\* what the handler computes from a query and the stored data
HandlerRecords(q) ==
  LET generic == getBrowsedRelationships(storage.relationships[q.bbid],
                                         browsedEntityType, q)
  IN IF specialResolverFor(q.modelType) = "none" THEN generic
     ELSE pushFiltered(generic, storage.editions[q.bbid], q)

\* C1: a 200 response holds exactly the candidates of every resolver that ran
\* whose projection passes (format absent or equal ignoring case) and
\* (language absent or its normalized form is in the language list); with no
\* criterion every candidate is returned, and a format differing only in
\* letter case yields the identical record list.
C1_ExactlyPassingCandidates ==
  \A r \in Requests : Answered200(r) =>
    /\ Entities(response[r].editions)
         = SelectSeq(Entities(Candidates(r)), LAMBDA e : Passes(query[r], e))
    /\ (query[r].format = <<>> /\ query[r].language = <<>>)
         => Len(response[r].editions) = Len(Candidates(r))
    /\ \A f \in Formats : toLower(f) = toLower(query[r].format) =>
         HandlerRecords([query[r] EXCEPT !.format = f]) = response[r].editions

C1_Witness ==
  /\ Answered200("r1")
  /\ query["r1"].format = <<"E","B">>
  /\ query["r1"].language = <<"e","n">>
  /\ Len(response["r1"].editions) = 2
  /\ Len(Candidates("r1")) > 3

IgnoreCaseMember(list, x) == \E i \in 1..Len(list) : toLower(list[i]) = toLower(x)

\* C2: with a language supplied, a candidate passes the language criterion
\* exactly when some name of its language list equals the supplied value
\* ignoring letter case.
C2_LanguageIgnoresCase ==
  \A r \in Requests :
    (Answered200(r) /\ query[r].language # <<>> /\ query[r].format = <<>>) =>
      \A i \in 1..Len(Candidates(r)) :
        includes(Entities(response[r].editions), Candidates(r)[i].entity)
          <=> IgnoreCaseMember(Candidates(r)[i].entity.languages,
                               query[r].language)

NoReadFailed(r) ==
  /\ ~Has(r, "generic.fail") /\ ~Has(r, "containment.fail")
  /\ ~Has(r, "ownership.fail") /\ ~Has(r, "containment.norow")

\* C3: a 200 response echoes the request's anchor id, and a request on an
\* anchor with no generic edge and an empty association, whose reads
\* returned, ends with a 200 browse body holding an empty record list.
C3_EchoAndEmptyList ==
  \A r \in Requests :
    /\ Answered200(r) =>
         response[r].bbid = query[r].id /\ response[r].body = "browse"
    /\ ( /\ pc[r] \in {"done", "rejected"}
         /\ Has(r, "loadEntity.ok")
         /\ NoReadFailed(r)
         /\ Candidates(r) = <<>> )
       => /\ Answered200(r)
          /\ response[r].editions = <<>>
          /\ response[r].bbid = query[r].id

C3_Witness ==
  /\ Answered200("r1")
  /\ query["r1"].modelType = "EditionGroup"
  /\ query["r1"].id = "a1"
  /\ storage.relationships["a1"] = <<>> /\ storage.editions["a1"] = <<>>
  /\ response["r1"].editions = <<>>
  /\ response["r1"].bbid = "a1"

\* C4: special-case records are added to the generic ones: without a filter
\* the response has as many records as there are generic-edge candidates
\* plus special-case candidates; special-case records carry the empty
\* relationship and generic records the type of their edge.
C4_Additive ==
  \A r \in Requests : Answered200(r) =>
    LET passG == SelectSeq(GenericCandidates(r),
                           LAMBDA c : Passes(query[r], c.entity))
        passS == SelectSeq(SpecialCandidates(r),
                           LAMBDA c : Passes(query[r], c.entity))
        out   == response[r].editions
    IN /\ (query[r].format = <<>> /\ query[r].language = <<>>) =>
             Len(out) = Len(GenericCandidates(r)) + Len(SpecialCandidates(r))
       /\ Len(out) = Len(passG) + Len(passS)
       /\ \A i \in 1..Len(out) :
            IF i <= Len(passG)
            THEN out[i].relationship = {[relationshipTypeID |-> passG[i].typeId]}
            ELSE out[i].relationship = {}

C4_Witness ==
  /\ Answered200("r1")
  /\ query["r1"].format = <<>> /\ query["r1"].language = <<>>
  /\ Len(GenericCandidates("r1")) = 1
  /\ Len(SpecialCandidates("r1")) = 3
  /\ Len(response["r1"].editions) = 4
  /\ response["r1"].editions[1].relationship # {}
  /\ response["r1"].editions[4].relationship = {}

\* C5: in a 200 response the records are the candidates that were kept, in
\* candidate order: generic records first, then special-case records, each
\* group in its resolver's order, and an entity reported by both resolvers
\* appears once per report.
C5_ResolverOrderNoDedup ==
  \A r \in Requests : Answered200(r) =>
    LET out  == response[r].editions
        kept == {out[i].entity : i \in 1..Len(out)}
        keptCandidates == SelectSeq(Candidates(r), LAMBDA c : c.entity \in kept)
    IN /\ Len(out) = Len(keptCandidates)
       /\ \A i \in 1..Len(out) :
            /\ out[i].entity = keptCandidates[i].entity
            /\ (out[i].relationship = {}) <=> (keptCandidates[i].source = "special")
       /\ \A i, j \in 1..Len(out) :
            (out[i].relationship # {} /\ out[j].relationship = {}) => i < j

C5_Witness ==
  /\ Answered200("r1")
  /\ Len(response["r1"].editions) = 4
  /\ response["r1"].editions[1].entity.bbid = "e2"
  /\ response["r1"].editions[2].entity.bbid = "e3"
  /\ response["r1"].editions[3].entity.bbid = "e1"
  /\ response["r1"].editions[4].entity.bbid = "e2"
  /\ response["r1"].editions[1].relationship # {}
  /\ response["r1"].editions[2].relationship = {}

ReachedHandler(r) ==
  Has(r, "loadRelationships") /\ pc[r] # "handler"

\* C6 as stated: the generic resolver is always invoked, the containment
\* resolver exactly when the target kind is EditionGroup and the ownership
\* resolver exactly when the target kind is Publisher.
C6_DispatchOnTargetKind ==
  \A r \in Requests : Has(r, "generic.done") =>
    /\ Has(r, "generic.issue")
    /\ Has(r, "containment.issue") <=> (browsedEntityType = "EditionGroup")
    /\ Has(r, "ownership.issue") <=> (browsedEntityType = "Publisher")

\* C6 amended: a request that passed validation and the anchor load invokes
\* the generic resolver; once that read has returned, the containment
\* resolver is invoked exactly when the anchor kind (modelType) is
\* EditionGroup and the ownership resolver exactly when it is Publisher;
\* the target kind is Edition throughout.
C6_DispatchOnAnchorKind ==
  \A r \in Requests :
    /\ ReachedHandler(r) => Has(r, "generic.issue")
    /\ Has(r, "generic.done") =>
         /\ Has(r, "containment.issue") <=> (query[r].modelType = "EditionGroup")
         /\ Has(r, "ownership.issue") <=> (query[r].modelType = "Publisher")
    /\ ~Has(r, "generic.done") =>
         ~Has(r, "containment.issue") /\ ~Has(r, "ownership.issue")
    /\ browsedEntityType = "Edition"

C6_Witness ==
  /\ Has("r1", "containment.issue")
  /\ query["r1"].modelType = "EditionGroup"
  /\ ~Has("r1", "ownership.issue")
  /\ pc["r1"] = "done"

ReadFailed(r) ==
  Has(r, "generic.fail") \/ Has(r, "containment.fail") \/ Has(r, "ownership.fail")

\* C7: when a resolver read fails after the anchor loaded, the request is
\* answered with an error response: neither a 200 nor no response at all.
C7_FailureSurfaced ==
  \A r \in Requests : ReadFailed(r) => response[r].status \notin {0, 200}

Before(r, a, b) == Has(r, a) /\ Has(r, b) /\ Pos(r, a) < Pos(r, b)

ReadEvents ==
  {"loadRelationships", "generic.issue", "generic.done", "generic.fail",
   "containment.issue", "containment.done", "containment.norow",
   "containment.fail", "ownership.issue", "ownership.done", "ownership.fail"}

\* C8: validation precedes the anchor load, which precedes every resolver
\* read, which precedes the response; a 200 is sent at most once, after the
\* anchor loaded and the generic and the applicable special-case read have
\* completed; after a failed validation or anchor load no read is issued
\* and no record list is returned.
C8_StepOrder ==
  \A r \in Requests :
    /\ Count(r, "send200") <= 1
    /\ \A ev \in ReadEvents : Has(r, ev) =>
         /\ Before(r, "validate.ok", "loadEntity.ok")
         /\ Before(r, "loadEntity.ok", ev)
         /\ Has(r, "send200") => Pos(r, ev) < Pos(r, "send200")
    /\ Has(r, "loadEntity.ok") => Before(r, "validate.ok", "loadEntity.ok")
    /\ Answered200(r) <=> Has(r, "send200")
    /\ Has(r, "send200") =>
         /\ Before(r, "loadEntity.ok", "send200")
         /\ Before(r, "generic.done", "send200")
         /\ query[r].modelType = "EditionGroup" =>
              Before(r, "containment.done", "send200")
         /\ query[r].modelType = "Publisher" =>
              Before(r, "ownership.done", "send200")
         /\ Has(r, "containment.issue") => Has(r, "containment.done")
         /\ Has(r, "ownership.issue") => Has(r, "ownership.done")
    /\ (Has(r, "validate.fail") \/ Has(r, "loadEntity.fail")) =>
         /\ \A ev \in ReadEvents : ~Has(r, ev)
         /\ response[r].body # "browse"
         /\ response[r].editions = <<>>
         /\ editionRelationshipList[r] = <<>>

C8_Witness ==
  /\ trace["r1"] = <<"validate.ok", "loadEntity.ok", "loadRelationships",
                     "generic.issue", "generic.done", "ownership.issue",
                     "ownership.done", "send200">>
  /\ Answered200("r1")

\* C9: under any interleaving of two requests each 200 response echoes its
\* own anchor id and every record in it is a candidate of its own anchor
\* that passes its own format and language criteria.
C9_NoLeak ==
  \A r \in Requests : Answered200(r) =>
    /\ response[r].bbid = query[r].id
    /\ \A i \in 1..Len(response[r].editions) :
         /\ \E k \in 1..Len(Candidates(r)) :
              Candidates(r)[k].entity = response[r].editions[i].entity
         /\ Passes(query[r], response[r].editions[i].entity)
    /\ response[r].editions = HandlerRecords(query[r])

C9_Witness ==
  /\ interleaved
  /\ Answered200("r1") /\ Answered200("r2")
  /\ query["r1"].id = "a1" /\ query["r2"].id = "a2"
  /\ query["r1"].format # <<>> /\ query["r2"].format = <<>>
  /\ query["r2"].language # <<>>
  /\ response["r1"].editions # <<>> /\ response["r2"].editions # <<>>
  /\ response["r1"].editions # response["r2"].editions

\* C10: when the containment fetch returns no row the handler appends no
\* special-case record and completes with a 200 holding the generic records
\* and the unchanged anchor id.
C10_NoRowGives200 ==
  \A r \in Requests : Has(r, "containment.norow") =>
    /\ Answered200(r)
    /\ response[r].bbid = query[r].id
    /\ response[r].editions =
         getBrowsedRelationships(storage.relationships[query[r].id],
                                 browsedEntityType, query[r])

TypeOK ==
  /\ pc \in [Requests -> {"idle", "validate", "loadEntity", "loadRelationships",
                          "handler", "awaitGeneric", "awaitContainment",
                          "awaitOwnership", "done", "rejected"}]
  /\ \A r \in Requests : response[r].status \in {0, 200, 400, 404}
====
